---- MODULE Spec2Model ----
(***************************************************************************)
(* Model of External/SDCard_Driver/Src/sd_driver_init.c: the SPI-mode      *)
(* initialization of an SD card (sd_card_reset and the static functions    *)
(* it calls) and the CSD decoding of sd_card_get_common_info.              *)
(*                                                                         *)
(* The transport (HAL_SPI_Transmit, sd_card_receive_byte, the SEND_CMD     *)
(* macro, chip select) and the card are the environment: every transport   *)
(* call yields a status from TransportStatus and every response is drawn   *)
(* from a small set of bytes.  HAL_GetTick is the 32-bit variable tick.    *)
(***************************************************************************)
EXTENDS Integers, Sequences, FiniteSets, TLC

\* ---------------------------------------------------------------- bounds
\* Total tick time that may elapse inside polling loops in one behaviour.
MaxElapsed == 1501

\* ------------------------------------------------- status codes and flags
\* sd_error: bit-flag composable codes, each a distinct bit.
SD_OK == 0
SD_ERROR == 1
SD_TIMEOUT == 2
SD_TRANSMISSION_ERROR == 4
SD_UNUSABLE_CARD == 8

\* R1 status byte flags.
R1_CLEAR_FLAGS == 0
R1_IN_IDLE_STATE == 1
R1_ILLEGAL_COMMAND == 4

\* sd_card_status.capacity values.
STANDART == "STANDART"
HIGH_OR_EXTENDED == "HIGH_OR_EXTENDED"

\* HAL_GetTick's uint32_t result is kept as two 16-bit halves,
\* [hi, lo] standing for hi * 65536 + lo.
Half == 65536
U32(h, l) == [hi |-> h, lo |-> l]

\* ------------------------------------------------------ C integer helpers
RECURSIVE BitAnd(_, _)
BitAnd(a, b) ==
  IF a = 0 \/ b = 0 THEN 0
  ELSE (a % 2) * (b % 2) + 2 * BitAnd(a \div 2, b \div 2)

RECURSIVE BitOr(_, _)
BitOr(a, b) ==
  IF a = 0 THEN b
  ELSE IF b = 0 THEN a
  ELSE (IF a % 2 = 1 \/ b % 2 = 1 THEN 1 ELSE 0) + 2 * BitOr(a \div 2, b \div 2)

\* a + d in uint32_t arithmetic, for 0 <= d < 65536.
U32Add(a, d) ==
  U32((a.hi + (a.lo + d) \div Half) % Half, (a.lo + d) % Half)

\* a - b in uint32_t arithmetic.
U32Sub(a, b) ==
  LET borrow == IF a.lo < b.lo THEN 1 ELSE 0 IN
  U32((a.hi - b.hi - borrow + 2 * Half) % Half, (a.lo - b.lo + Half) % Half)

\* a > n for a uint32_t a and a constant 0 <= n < 65536.
U32Gt(a, n) == a.hi > 0 \/ a.lo > n

ElapsedNoWrap(now, start) ==
  IF now.hi > start.hi \/ (now.hi = start.hi /\ now.lo >= start.lo)
  THEN U32Sub(now, start) ELSE U32(0, 0)

\* HAL_GetTick() - tickstart in uint32_t arithmetic.
Elapsed(now, start) == U32Sub(now, start)

\* ------------------------------------------------------------ environment
\* Status returned by one transport call (transmit, receive, SEND_CMD).
TransportStatus == {SD_OK, SD_ERROR}

\* Bytes the card may deliver while the host polls for the go-idle answer.
R1Bytes == {255, R1_IN_IDLE_STATE}

\* R7 answers to CMD8: status byte, accepted voltage, echoed check pattern.
R7(r1, v, e) ==
  [high_order_part |-> r1, voltage_accepted |-> v,
   echo_back_of_check_pattern |-> e]
R7Responses ==
  {R7(R1_IN_IDLE_STATE, 1, 85), R7(R1_IN_IDLE_STATE, 1, 170),
   R7(R1_IN_IDLE_STATE, 0, 85),
   R7(R1_IN_IDLE_STATE + R1_ILLEGAL_COMMAND, 0, 0),
   R7(R1_IN_IDLE_STATE + R1_ILLEGAL_COMMAND, 1, 85)}

\* R1 answers to CMD59.
CrcResponses == {R1_CLEAR_FLAGS, R1_IN_IDLE_STATE}

\* ocr_register_content[0..3] of the R3 answer to CMD58.
Ocr(b0, b1, b2) ==
  [k \in 0..3 |-> IF k = 0 THEN b0 ELSE IF k = 1 THEN b1
                  ELSE IF k = 2 THEN b2 ELSE 0]
OcrResponses ==
  {Ocr(b0, b1, b2) : b0 \in {0, 2, 64}, b1 \in {0, 255}, b2 \in {0, 128}}

\* R1 answers to ACMD41.
OpCondResponses ==
  {R1_CLEAR_FLAGS, R1_IN_IDLE_STATE, R1_IN_IDLE_STATE + R1_ILLEGAL_COMMAND}

\* Tick increments while a polling loop waits on the transport.
TickSteps == {500, 501}

\* Values of HAL_GetTick when the first polling loop is entered.
TickStarts == {U32(0, 0), U32(Half - 1, Half - 500)}

NoR7 == R7(0, 0, 0)
NoOcr == Ocr(0, 0, 0)

VARIABLES
  \* program state
  sd_card_is_spi_mode,       \* static latch of sd_card_enter_spi_mode
  version,                   \* sd_card_status.version
  capacity,                  \* sd_card_status.capacity
  error_in_initialization,   \* sd_card_status.error_in_initialization
  tick,                      \* HAL_GetTick()
  cs,                        \* chip select: TRUE = card selected
  pc,                        \* position of the running call
  crc_enable,                \* argument of sd_card_reset
  status,                    \* status of sd_card_reset
  m_status,                  \* status of sd_card_power_on / enter_spi_mode
  po_i,                      \* loop counter of sd_card_power_on
  tickstart,                 \* tickstart of the running polling loop
  send_if_cond_response,     \* R7 answer kept by sd_card_reset
  v_status,                  \* status of the running init process
  ocr_response,              \* OCR kept by the running init process
  mode_ret,                  \* value returned by sd_card_enter_spi_mode
  v_ret,                     \* value returned by the init process
  ret,                       \* value returned by sd_card_reset
  \* observation of the running call (history)
  seen,                      \* OR of every status observed in this reset
  cmdsAfterFail,             \* commands sent after a step of this reset failed
  stepFailed,                \* a step of this reset produced a non-OK status
  sent,                      \* command indices sent in this reset
  ran,                       \* steps of sd_card_reset run in this reset
  wrote,                     \* <<version, capacity>> pairs written in this reset
  modeIO,                    \* enter_spi_mode touched the transport or CS
  latchAtEntry,              \* latch value when enter_spi_mode was entered
  waited,                    \* tick time elapsed since tickstart was taken
  lastPoll,                  \* waited at the last poll that stayed in the loop
  allIdle,                   \* every ACMD41 answer so far was in-idle-state
  if_cond_status,            \* transport status of the CMD8 exchange
  errAtEntry,                \* error_in_initialization when reset was called
  clock,                     \* total tick time elapsed in polling loops
  idleClocks,                \* clock cycles sent deselected by the last power-on
  flushed,                   \* the last power-on made its throwaway receive
  po_status,                 \* status returned by the last sd_card_power_on
  idleInTime,                \* in-idle-state was received inside the window
  sawIllegal,                \* an ACMD41 answer had the illegal-command flag
  verAtEntry,                \* <<version, capacity>> when reset was called
  \* sd_card_crc_on_off, between its return and the use of its value
  crc_arg,                   \* argument of the command 59 frame
  crc_r1,                    \* r1 answer to command 59
  crc_st,                    \* transport status of the command 59 exchange
  crc_ret,                   \* value returned by sd_card_crc_on_off
  \* sd_card_get_common_info
  csd_register,              \* the 16 bytes read by sd_card_get_csd
  info,                      \* *info, the geometry result
  info_ret,                  \* value returned by sd_card_get_common_info
  info_path,                 \* size decoding taken by the last call
  device_size,               \* local device_size of the version 1 decoding
  speed_index                \* <<unit index, time index>> of the last call

drv == <<sd_card_is_spi_mode, version, capacity, error_in_initialization,
         tick, cs, pc, crc_enable, status, m_status, po_i, tickstart,
         send_if_cond_response, v_status, ocr_response, mode_ret, v_ret, ret>>
hist == <<seen, cmdsAfterFail, stepFailed, sent, ran, wrote, modeIO,
          latchAtEntry, waited, lastPoll, allIdle, if_cond_status,
          errAtEntry, clock>>
inf == <<csd_register, info, info_ret, info_path, device_size, speed_index>>
pwr == <<idleClocks, flushed, po_status>>
crcv == <<crc_arg, crc_r1, crc_st, crc_ret>>
obs == <<pwr, idleInTime, sawIllegal, verAtEntry>>
vars == <<drv, hist, inf, obs, crcv>>

NoInfo == [max_transfer_speed |-> 0, command_classes |-> 0,
           max_data_block_size |-> 0, partial_blocks_allowed |-> FALSE,
           size |-> U32(0, 0)]

InitInfoVars ==
  /\ csd_register = [k \in 0..15 |-> 0]
  /\ info = NoInfo
  /\ info_ret = SD_OK
  /\ info_path = "none"
  /\ device_size = 0
  /\ speed_index = <<0, 0>>

InitCallVars ==
  /\ idleInTime = FALSE
  /\ sawIllegal = FALSE
  /\ verAtEntry = <<version, capacity>>
  /\ crc_arg = 0
  /\ crc_r1 = 0
  /\ crc_st = SD_OK
  /\ crc_ret = SD_OK

Init ==
  /\ sd_card_is_spi_mode = FALSE
  /\ version = 0
  /\ capacity \in {STANDART, HIGH_OR_EXTENDED}
  /\ error_in_initialization = FALSE
  /\ tick \in TickStarts
  /\ cs = FALSE
  /\ pc = "idle"
  /\ crc_enable = FALSE
  /\ status = SD_OK
  /\ m_status = SD_OK
  /\ po_i = 0
  /\ tickstart = U32(0, 0)
  /\ send_if_cond_response = NoR7
  /\ v_status = SD_OK
  /\ ocr_response = NoOcr
  /\ mode_ret = SD_OK
  /\ v_ret = SD_OK
  /\ ret = SD_OK
  /\ seen = SD_OK
  /\ cmdsAfterFail = {}
  /\ stepFailed = FALSE
  /\ sent = {}
  /\ ran = {}
  /\ wrote = {}
  /\ modeIO = FALSE
  /\ latchAtEntry = FALSE
  /\ waited = 0
  /\ lastPoll = 0
  /\ allIdle = TRUE
  /\ if_cond_status = SD_OK
  /\ errAtEntry = FALSE
  /\ clock = 0
  /\ idleClocks = 0
  /\ flushed = FALSE
  /\ po_status = SD_OK
  /\ InitCallVars
  /\ InitInfoVars

\* A command frame goes out: record it, and record it as sent after a
\* failure when an earlier step of this reset already failed.
SendCmds(cmds) ==
  /\ sent' = sent \cup cmds
  /\ cmdsAfterFail' = IF stepFailed THEN cmdsAfterFail \cup cmds
                      ELSE cmdsAfterFail

\* ------------------------------------------------------- sd_card_reset
\* Entry of sd_card_reset: the call of sd_card_enter_spi_mode (line 187).
sd_card_reset_call ==
  /\ pc = "idle"
  /\ \E c \in BOOLEAN : crc_enable' = c
  /\ pc' = "mode"
  /\ status' = SD_OK
  /\ m_status' = SD_OK
  /\ v_status' = SD_OK
  /\ send_if_cond_response' = NoR7
  /\ ocr_response' = NoOcr
  /\ mode_ret' = SD_OK
  /\ v_ret' = SD_OK
  /\ ret' = SD_OK
  /\ seen' = SD_OK
  /\ cmdsAfterFail' = {}
  /\ stepFailed' = FALSE
  /\ sent' = {}
  /\ ran' = {}
  /\ wrote' = {}
  /\ modeIO' = FALSE
  /\ latchAtEntry' = sd_card_is_spi_mode
  /\ waited' = 0
  /\ lastPoll' = 0
  /\ allIdle' = TRUE
  /\ if_cond_status' = SD_OK
  /\ errAtEntry' = error_in_initialization
  /\ sawIllegal' = FALSE
  /\ verAtEntry' = <<version, capacity>>
  /\ UNCHANGED <<sd_card_is_spi_mode, version, capacity,
                 error_in_initialization, tick, cs, po_i, tickstart, clock,
                 inf,
                 pwr, idleInTime, crcv>>

IsErrorTimeoutOnly(s) == BitAnd(s, SD_TIMEOUT) # 0

\* C truth value of an sd_error: if (status), (bool)status.
IsError(s) == s # SD_OK

ErrorFlagLowBit(s) == s % 2 = 1

\* (bool)status (line 217).
ErrorFlag(s) == IsError(s)

\* goto end_of_initialization with status s: record the flag and return
\* (lines 216-218).
EndOfInitialization(s) ==
  /\ status' = s
  /\ error_in_initialization' = ErrorFlag(s)
  /\ ret' = s
  /\ pc' = "idle"

\* ----------------------------------------------- sd_card_enter_spi_mode
\* The latch test: if (sd_card_is_spi_mode) return SD_OK.
sd_card_enter_spi_mode_latched ==
  /\ pc = "mode"
  /\ sd_card_is_spi_mode
  /\ mode_ret' = SD_OK
  /\ pc' = "mode_done"
  /\ UNCHANGED <<sd_card_is_spi_mode, version, capacity,
                 error_in_initialization, tick, cs, crc_enable, status,
                 m_status, po_i, tickstart, send_if_cond_response, v_status,
                 ocr_response, v_ret, ret, hist, inf,
                 obs, crcv>>

\* sd_card_power_on up to its loop: status = SD_OK, DISELECT_SD().
sd_card_power_on_begin ==
  /\ pc = "mode"
  /\ ~sd_card_is_spi_mode
  /\ m_status' = SD_OK
  /\ po_i' = 0
  /\ cs' = FALSE
  /\ modeIO' = TRUE
  /\ idleClocks' = 0
  /\ flushed' = FALSE
  /\ po_status' = SD_OK
  /\ pc' = "po_tx"
  /\ UNCHANGED <<sd_card_is_spi_mode, version, capacity,
                 error_in_initialization, tick, crc_enable, status, tickstart,
                 send_if_cond_response, v_status, ocr_response, mode_ret,
                 v_ret, ret, seen, cmdsAfterFail, stepFailed, sent, ran, wrote,
                 latchAtEntry, waited, lastPoll, allIdle, if_cond_status, errAtEntry, clock, inf,
                 idleInTime, sawIllegal, verAtEntry, crcv>>

PowerOnLoopShort(i) == i < 9

\* for (uint8_t i = 0; i < 10; i++) (line 24).
PowerOnLoop(i) == i < 10

\* One iteration of the idle-clock loop: transmit one 0xff byte, eight
\* clock cycles.
sd_card_power_on_transmit ==
  /\ pc = "po_tx"
  /\ PowerOnLoop(po_i)
  /\ idleClocks' = IF cs THEN idleClocks ELSE idleClocks + 8
  /\ \E st \in TransportStatus :
       /\ m_status' = BitOr(m_status, st)
       /\ seen' = BitOr(seen, st)
  /\ po_i' = po_i + 1
  /\ UNCHANGED <<sd_card_is_spi_mode, version, capacity,
                 error_in_initialization, tick, cs, pc, crc_enable, status,
                 tickstart, send_if_cond_response, v_status, ocr_response,
                 mode_ret, v_ret, ret, cmdsAfterFail, stepFailed, sent, ran,
                 wrote, modeIO, latchAtEntry, waited, lastPoll, allIdle,
                 if_cond_status, errAtEntry, clock, inf,
                 flushed, po_status, idleInTime, sawIllegal, verAtEntry, crcv>>

\* The throwaway receive of sd_card_power_on, its return, and the test of
\* the returned status in sd_card_enter_spi_mode (lines 28-29, 41-43).
sd_card_power_on_receive ==
  /\ pc = "po_tx"
  /\ ~PowerOnLoop(po_i)
  /\ flushed' = TRUE
  /\ \E st \in TransportStatus :
       LET s == BitOr(m_status, st) IN
       /\ m_status' = s
       /\ po_status' = s
       /\ seen' = BitOr(seen, st)
       /\ IF IsError(s)
          THEN /\ mode_ret' = s
               /\ pc' = "mode_done"
          ELSE /\ mode_ret' = mode_ret
               /\ pc' = "go_idle"
  /\ po_i' = 0
  /\ UNCHANGED <<sd_card_is_spi_mode, version, capacity,
                 error_in_initialization, tick, cs, crc_enable, status,
                 tickstart, send_if_cond_response, v_status, ocr_response,
                 v_ret, ret, cmdsAfterFail, stepFailed, sent, ran, wrote,
                 modeIO, latchAtEntry, waited, lastPoll, allIdle, if_cond_status, errAtEntry, clock, inf,
                 idleClocks, idleInTime, sawIllegal, verAtEntry, crcv>>

\* SELECT_SD(), transmit CMD0, receive one byte, take tickstart
\* (lines 45-54).  The byte received here is overwritten by the loop.
sd_card_enter_spi_mode_go_idle ==
  /\ pc = "go_idle"
  /\ cs' = TRUE
  /\ \E st1 \in TransportStatus, st2 \in TransportStatus, r1 \in R1Bytes :
       /\ m_status' = BitOr(BitOr(m_status, st1), st2)
       /\ seen' = BitOr(BitOr(seen, st1), st2)
       /\ idleInTime' = (r1 = R1_IN_IDLE_STATE)
  /\ SendCmds({0})
  /\ tickstart' = tick
  /\ waited' = 0
  /\ lastPoll' = 0
  /\ pc' = "mode_poll"
  /\ UNCHANGED <<sd_card_is_spi_mode, version, capacity,
                 error_in_initialization, tick, crc_enable, status, po_i,
                 send_if_cond_response, v_status, ocr_response, mode_ret,
                 v_ret, ret, stepFailed, ran, wrote, modeIO, latchAtEntry,
                 allIdle, if_cond_status, errAtEntry, clock, inf,
                 pwr, sawIllegal, verAtEntry, crcv>>

\* if (HAL_GetTick() - tickstart > 500) in sd_card_enter_spi_mode.
ModeTimedOut(now, start) == U32Gt(Elapsed(now, start), 500)

LatchSetAlways(s) == TRUE

\* if (status == SD_OK) sd_card_is_spi_mode = true.
LatchSet(s) == s = SD_OK

\* One iteration of the do-while loop and, when it ends, the rest of the
\* function (lines 55-67).
sd_card_enter_spi_mode_poll ==
  /\ pc = "mode_poll"
  /\ \E st \in TransportStatus, r1 \in R1Bytes :
       LET s == BitOr(m_status, st) IN
       /\ idleInTime' = (idleInTime \/ (r1 = R1_IN_IDLE_STATE
                                         /\ ~ModeTimedOut(tick, tickstart)))
       /\ IF ModeTimedOut(tick, tickstart)
          THEN /\ mode_ret' = SD_TIMEOUT
               /\ seen' = BitOr(BitOr(seen, st), SD_TIMEOUT)
               /\ m_status' = s
               /\ pc' = "mode_done"
               /\ UNCHANGED <<cs, sd_card_is_spi_mode, lastPoll>>
          ELSE IF r1 = R1_IN_IDLE_STATE
          THEN /\ cs' = FALSE
               /\ sd_card_is_spi_mode' = (sd_card_is_spi_mode \/ LatchSet(s))
               /\ mode_ret' = s
               /\ seen' = BitOr(seen, st)
               /\ m_status' = s
               /\ pc' = "mode_done"
               /\ UNCHANGED lastPoll
          ELSE /\ m_status' = s
               /\ seen' = BitOr(seen, st)
               /\ lastPoll' = waited
               /\ UNCHANGED <<cs, sd_card_is_spi_mode, mode_ret, pc>>
  /\ UNCHANGED <<version, capacity, error_in_initialization, tick, crc_enable,
                 status, po_i, tickstart, send_if_cond_response, v_status,
                 ocr_response, v_ret, ret, cmdsAfterFail, stepFailed, sent,
                 ran, wrote, modeIO, latchAtEntry, waited, allIdle, if_cond_status,
                 errAtEntry, clock, inf,
                 pwr, sawIllegal, verAtEntry, crcv>>

\* The millisecond tick advances while a polling loop waits.
TickAdvance ==
  /\ pc \in {"mode_poll", "v1_poll", "v2_poll"}
  /\ \E d \in TickSteps :
       /\ clock + d <= MaxElapsed
       /\ tick' = U32Add(tick, d)
       /\ waited' = waited + d
       /\ clock' = clock + d
  /\ UNCHANGED <<sd_card_is_spi_mode, version, capacity,
                 error_in_initialization, cs, pc, crc_enable, status, m_status,
                 po_i, tickstart, send_if_cond_response, v_status,
                 ocr_response, mode_ret, v_ret, ret, seen, cmdsAfterFail,
                 stepFailed, sent, ran, wrote, modeIO, latchAtEntry, lastPoll,
                 allIdle, if_cond_status, errAtEntry, inf,
                 obs, crcv>>

\* status = sd_card_enter_spi_mode(hspi); if (status) goto end (187-190).
sd_card_reset_after_mode ==
  /\ pc = "mode_done"
  /\ ran' = ran \cup {"mode"}
  /\ stepFailed' = (stepFailed \/ IsError(mode_ret))
  /\ IF IsError(mode_ret)
     THEN EndOfInitialization(mode_ret)
     ELSE /\ status' = mode_ret
          /\ pc' = "if_cond"
          /\ UNCHANGED <<error_in_initialization, ret>>
  /\ m_status' = SD_OK
  /\ tickstart' = U32(0, 0)
  /\ idleInTime' = FALSE
  /\ UNCHANGED <<sd_card_is_spi_mode, version, capacity, tick, cs,
                 crc_enable, po_i, send_if_cond_response, v_status,
                 ocr_response, mode_ret, v_ret, seen, cmdsAfterFail, sent,
                 wrote, modeIO, latchAtEntry, waited, lastPoll, allIdle,
                 if_cond_status, errAtEntry, clock, inf,
                 pwr, sawIllegal, verAtEntry, crcv>>

\* ------------------------------------------- sd_card_reset, after mode entry
\* SEND_CMD(hspi, cmd_send_if_cond, ...); if (status) goto end (192-195).
sd_card_reset_send_if_cond ==
  /\ pc = "if_cond"
  /\ \E st \in TransportStatus, r \in R7Responses :
       LET s == BitOr(status, st) IN
       /\ if_cond_status' = st
       /\ send_if_cond_response' = r
       /\ seen' = BitOr(seen, st)
       /\ stepFailed' = (stepFailed \/ IsError(s))
       /\ IF IsError(s)
          THEN EndOfInitialization(s)
          ELSE /\ status' = s
               /\ pc' = "crc"
               /\ UNCHANGED <<error_in_initialization, ret>>
  /\ SendCmds({8})
  /\ ran' = ran \cup {"if_cond"}
  /\ UNCHANGED <<sd_card_is_spi_mode, version, capacity, tick, cs,
                 crc_enable, m_status, po_i, tickstart, v_status,
                 ocr_response, mode_ret, v_ret, wrote, modeIO, latchAtEntry,
                 waited, lastPoll, allIdle, errAtEntry, clock, inf,
                 obs, crcv>>

CrcResultReadyOk(st, r1) ==
  IF r1 \notin {R1_IN_IDLE_STATE, R1_CLEAR_FLAGS}
  THEN SD_TRANSMISSION_ERROR ELSE st

\* Value returned by sd_card_crc_on_off for transport status st and
\* answer r1 (lines 80-84).
CrcResult(st, r1) ==
  IF r1 # R1_IN_IDLE_STATE THEN SD_TRANSMISSION_ERROR ELSE st

\* Argument of the command 59 frame: crc_enable ? 0x1 : 0x0 (line 76).
CrcArg(en) == IF en THEN 1 ELSE 0

\* sd_card_crc_on_off(hspi, crc_enable) up to its return (lines 71-85).
sd_card_crc_on_off ==
  /\ pc = "crc"
  /\ crc_arg' = CrcArg(crc_enable)
  /\ \E st \in TransportStatus, r1 \in CrcResponses :
       /\ crc_st' = st
       /\ crc_r1' = r1
       /\ crc_ret' = CrcResult(st, r1)
       /\ seen' = BitOr(BitOr(seen, st), CrcResult(st, r1))
  /\ SendCmds({59})
  /\ ran' = ran \cup {"crc"}
  /\ pc' = "crc_done"
  /\ UNCHANGED <<sd_card_is_spi_mode, version, capacity, crc_enable, status,
                 stepFailed, error_in_initialization, tick, cs, m_status,
                 po_i, tickstart, send_if_cond_response, v_status,
                 ocr_response, mode_ret, v_ret, ret, wrote, modeIO,
                 latchAtEntry, waited, lastPoll, allIdle, if_cond_status,
                 errAtEntry, clock, inf,
                 obs>>

\* status |= sd_card_crc_on_off(...) in sd_card_reset (line 197); the
\* result is not tested.
sd_card_reset_after_crc ==
  /\ pc = "crc_done"
  /\ status' = BitOr(status, crc_ret)
  /\ stepFailed' = (stepFailed \/ IsError(crc_ret))
  /\ pc' = "branch"
  /\ crc_enable' = FALSE
  /\ crc_arg' = 0
  /\ crc_r1' = 0
  /\ crc_st' = SD_OK
  /\ crc_ret' = SD_OK
  /\ UNCHANGED <<sd_card_is_spi_mode, version, capacity,
                 error_in_initialization, tick, cs, m_status, po_i, tickstart,
                 send_if_cond_response, v_status, ocr_response, mode_ret,
                 v_ret, ret, seen, cmdsAfterFail, sent, ran, wrote, modeIO,
                 latchAtEntry, waited, lastPoll, allIdle, if_cond_status,
                 errAtEntry, clock, inf, obs>>

IsIllegalCrcFlag(r) == BitAnd(r.high_order_part, 8) # 0

\* send_if_cond_response.high_order_part & R1_ILLEGAL_COMMAND (line 200).
IsIllegal(r) == BitAnd(r.high_order_part, R1_ILLEGAL_COMMAND) # 0

PatternOkEither(r) ==
  r.echo_back_of_check_pattern = 85 \/ r.voltage_accepted = 1

\* echo_back_of_check_pattern == 0x55 && GET_VOLTAGE_FROM_R7(..) == 0x1
\* (lines 207-208).
PatternOk(r) ==
  r.echo_back_of_check_pattern = 85 /\ r.voltage_accepted = 1

\* The choice of the negotiation variant (lines 200-212).
sd_card_reset_branch ==
  /\ pc = "branch"
  /\ IF IsIllegal(send_if_cond_response)
     THEN /\ pc' = "v1_ocr"
          /\ ran' = ran \cup {"v1"}
          /\ UNCHANGED <<status, seen, stepFailed, error_in_initialization,
                         ret>>
     ELSE IF ~PatternOk(send_if_cond_response)
     THEN /\ EndOfInitialization(BitOr(status, SD_UNUSABLE_CARD))
          /\ seen' = BitOr(seen, SD_UNUSABLE_CARD)
          /\ stepFailed' = TRUE
          /\ ran' = ran \cup {"validate"}
     ELSE /\ pc' = "v2_ocr"
          /\ ran' = ran \cup {"validate", "v2"}
          /\ UNCHANGED <<status, seen, stepFailed, error_in_initialization,
                         ret>>
  /\ v_status' = SD_OK
  /\ ocr_response' = NoOcr
  /\ UNCHANGED <<sd_card_is_spi_mode, version, capacity, tick, cs,
                 crc_enable, m_status, po_i, tickstart,
                 send_if_cond_response, mode_ret, v_ret, cmdsAfterFail, sent,
                 wrote, modeIO, latchAtEntry, waited, lastPoll, allIdle,
                 if_cond_status, errAtEntry, clock, inf,
                 obs, crcv>>

\* ------------------------------------------------- the two init processes
\* (ocr_register_content[1] & 0x1f) && (ocr_register_content[2] & 0x80).
VoltageOk(o) == BitAnd(o[1], 31) # 0 /\ BitAnd(o[2], 128) # 0

V1UnusableNever(r) == FALSE

\* if (r1_response & R1_ILLEGAL_COMMAND) in the loop of
\* sd_card_v1_init_process (line 117).
V1Unusable(r) == BitAnd(r, R1_ILLEGAL_COMMAND) # 0

V1TimedOutAtDeadline(now, start) == U32Gt(Elapsed(now, start), 999)

\* if (HAL_GetTick() - tickstart > 1000) in sd_card_v1_init_process.
V1TimedOut(now, start) == U32Gt(Elapsed(now, start), 1000)

\* if (HAL_GetTick() - tickstart > 1000) in sd_card_v2_init_process.
V2TimedOut(now, start) == U32Gt(Elapsed(now, start), 1000)

\* ocr_register_content[0] & 0x2 (line 169).
Ccs(o) == BitAnd(o[0], 2) # 0

\* The init process returns r: status |= r in sd_card_reset and the jump
\* to end_of_initialization (lines 202-203, 214-218).
InitProcessReturns(r) ==
  /\ v_ret' = r
  /\ stepFailed' = (stepFailed \/ IsError(r))
  /\ EndOfInitialization(BitOr(status, r))

\* CMD58 and the voltage check of sd_card_v1_init_process (100-109).
sd_card_v1_init_process_read_ocr ==
  /\ pc = "v1_ocr"
  /\ \E st \in TransportStatus, o \in OcrResponses :
       /\ v_status' = st
       /\ ocr_response' = o
       /\ IF ~VoltageOk(o)
          THEN /\ InitProcessReturns(SD_ERROR)
               /\ seen' = BitOr(BitOr(seen, st), SD_ERROR)
               /\ UNCHANGED tickstart
          ELSE /\ tickstart' = tick
               /\ seen' = BitOr(seen, st)
               /\ pc' = "v1_poll"
               /\ UNCHANGED <<v_ret, status, stepFailed, error_in_initialization,
                              ret>>
  /\ SendCmds({58})
  /\ waited' = 0
  /\ lastPoll' = 0
  /\ UNCHANGED <<sd_card_is_spi_mode, version, capacity, tick, cs,
                 crc_enable, m_status, po_i, send_if_cond_response, mode_ret,
                 ran, wrote, modeIO, latchAtEntry, allIdle, if_cond_status,
                 errAtEntry, clock, inf,
                 obs, crcv>>

\* One iteration of the ACMD41 loop of sd_card_v1_init_process and, when
\* it ends, the rest of the function (110-128).
sd_card_v1_init_process_poll ==
  /\ pc = "v1_poll"
  /\ \E st1 \in TransportStatus, st2 \in TransportStatus,
        r \in OpCondResponses :
       LET s == BitOr(BitOr(v_status, st1), st2)
           sn == BitOr(BitOr(seen, st1), st2) IN
       /\ v_status' = s
       /\ allIdle' = (allIdle /\ r = R1_IN_IDLE_STATE)
       /\ sawIllegal' = (sawIllegal \/ BitAnd(r, R1_ILLEGAL_COMMAND) # 0)
       /\ IF r = R1_CLEAR_FLAGS
          THEN /\ version' = 1
               /\ capacity' = STANDART
               /\ wrote' = wrote \cup {<<1, STANDART>>}
               /\ InitProcessReturns(s)
               /\ seen' = sn
               /\ UNCHANGED lastPoll
          ELSE IF V1Unusable(r)
          THEN /\ InitProcessReturns(SD_UNUSABLE_CARD)
               /\ seen' = BitOr(sn, SD_UNUSABLE_CARD)
               /\ UNCHANGED <<version, capacity, wrote, lastPoll>>
          ELSE IF V1TimedOut(tick, tickstart)
          THEN /\ InitProcessReturns(SD_TIMEOUT)
               /\ seen' = BitOr(sn, SD_TIMEOUT)
               /\ UNCHANGED <<version, capacity, wrote, lastPoll>>
          ELSE /\ seen' = sn
               /\ lastPoll' = waited
               /\ UNCHANGED <<version, capacity, wrote, v_ret, pc, status,
                              stepFailed, error_in_initialization, ret>>
  /\ SendCmds({55, 41})
  /\ UNCHANGED <<sd_card_is_spi_mode, tick, cs, crc_enable, m_status, po_i,
                 tickstart, send_if_cond_response, ocr_response, mode_ret,
                 ran, modeIO, latchAtEntry, waited, if_cond_status,
                 errAtEntry, clock, inf,
                 pwr, idleInTime, verAtEntry, crcv>>

\* CMD58 and the voltage check of sd_card_v2_init_process (145-154).
sd_card_v2_init_process_read_ocr ==
  /\ pc = "v2_ocr"
  /\ \E st \in TransportStatus, o \in OcrResponses :
       /\ v_status' = st
       /\ ocr_response' = o
       /\ IF ~VoltageOk(o)
          THEN /\ InitProcessReturns(SD_UNUSABLE_CARD)
               /\ seen' = BitOr(BitOr(seen, st), SD_UNUSABLE_CARD)
               /\ UNCHANGED tickstart
          ELSE /\ tickstart' = tick
               /\ seen' = BitOr(seen, st)
               /\ pc' = "v2_poll"
               /\ UNCHANGED <<v_ret, status, stepFailed, error_in_initialization,
                              ret>>
  /\ SendCmds({58})
  /\ waited' = 0
  /\ lastPoll' = 0
  /\ UNCHANGED <<sd_card_is_spi_mode, version, capacity, tick, cs,
                 crc_enable, m_status, po_i, send_if_cond_response, mode_ret,
                 ran, wrote, modeIO, latchAtEntry, allIdle, if_cond_status,
                 errAtEntry, clock, inf,
                 obs, crcv>>

\* One iteration of the ACMD41 loop of sd_card_v2_init_process and, when
\* it ends, the rest of the function (155-175).
sd_card_v2_init_process_poll ==
  /\ pc = "v2_poll"
  /\ \E st1 \in TransportStatus, st2 \in TransportStatus,
        r \in OpCondResponses :
       LET s == BitOr(BitOr(v_status, st1), st2)
           sn == BitOr(BitOr(seen, st1), st2)
           cap == IF Ccs(ocr_response) THEN HIGH_OR_EXTENDED ELSE STANDART IN
       /\ v_status' = s
       /\ allIdle' = (allIdle /\ r = R1_IN_IDLE_STATE)
       /\ sawIllegal' = (sawIllegal \/ BitAnd(r, R1_ILLEGAL_COMMAND) # 0)
       /\ IF r = R1_CLEAR_FLAGS
          THEN /\ capacity' = cap
               /\ version' = 2
               /\ wrote' = wrote \cup {<<2, cap>>}
               /\ InitProcessReturns(s)
               /\ seen' = sn
               /\ UNCHANGED lastPoll
          ELSE IF V2TimedOut(tick, tickstart)
          THEN /\ InitProcessReturns(SD_TIMEOUT)
               /\ seen' = BitOr(sn, SD_TIMEOUT)
               /\ UNCHANGED <<version, capacity, wrote, lastPoll>>
          ELSE /\ seen' = sn
               /\ lastPoll' = waited
               /\ UNCHANGED <<version, capacity, wrote, v_ret, pc, status,
                              stepFailed, error_in_initialization, ret>>
  /\ SendCmds({55, 41})
  /\ UNCHANGED <<sd_card_is_spi_mode, tick, cs, crc_enable, m_status, po_i,
                 tickstart, send_if_cond_response, ocr_response, mode_ret,
                 ran, modeIO, latchAtEntry, waited, if_cond_status,
                 errAtEntry, clock, inf,
                 pwr, idleInTime, verAtEntry, crcv>>

Next ==
  \/ sd_card_reset_call
  \/ sd_card_enter_spi_mode_latched
  \/ sd_card_power_on_begin
  \/ sd_card_power_on_transmit
  \/ sd_card_power_on_receive
  \/ sd_card_enter_spi_mode_go_idle
  \/ sd_card_enter_spi_mode_poll
  \/ TickAdvance
  \/ sd_card_reset_after_mode
  \/ sd_card_reset_send_if_cond
  \/ sd_card_crc_on_off
  \/ sd_card_reset_after_crc
  \/ sd_card_reset_branch
  \/ sd_card_v1_init_process_read_ocr
  \/ sd_card_v1_init_process_poll
  \/ sd_card_v2_init_process_read_ocr
  \/ sd_card_v2_init_process_poll

Spec == Init /\ [][Next]_vars

\* A polling loop is waiting.
Polling == pc \in {"mode_poll", "v1_poll", "v2_poll"}

\* The deadline test of the waiting loop is true at the current tick.
PollExpired ==
  \/ pc = "mode_poll" /\ ModeTimedOut(tick, tickstart)
  \/ pc = "v1_poll" /\ V1TimedOut(tick, tickstart)
  \/ pc = "v2_poll" /\ V2TimedOut(tick, tickstart)

\* The steps the processor takes on its own once sd_card_reset is
\* called: every transport call returns and the code goes on.  Inside a
\* polling loop only the iteration made past the deadline is required to
\* happen; what the card answers before it is left open.
Running ==
  /\ Polling => PollExpired
  /\ \/ sd_card_enter_spi_mode_latched
     \/ sd_card_power_on_begin
     \/ sd_card_power_on_transmit
     \/ sd_card_power_on_receive
     \/ sd_card_enter_spi_mode_go_idle
     \/ sd_card_enter_spi_mode_poll
     \/ sd_card_reset_after_mode
     \/ sd_card_reset_send_if_cond
     \/ sd_card_crc_on_off
     \/ sd_card_reset_after_crc
     \/ sd_card_reset_branch
     \/ sd_card_v1_init_process_read_ocr
     \/ sd_card_v1_init_process_poll
     \/ sd_card_v2_init_process_read_ocr
     \/ sd_card_v2_init_process_poll

\* The program with a processor that keeps running and a millisecond
\* tick that keeps advancing while a loop waits.
SpecLive == Init /\ [][Next]_vars /\ WF_vars(Running) /\ WF_vars(TickAdvance)

\* ------------------------------------------- sd_card_get_common_info
\* CSD registers delivered by sd_card_get_csd: bytes 3..9 vary.
Csd(b3, b5, b6, b7, b8, b9) ==
  [k \in 0..15 |->
     IF k = 3 THEN b3 ELSE IF k = 4 THEN 91 ELSE IF k = 5 THEN b5
     ELSE IF k = 6 THEN b6 ELSE IF k = 7 THEN b7 ELSE IF k = 8 THEN b8
     ELSE IF k = 9 THEN b9 ELSE 0]
CsdRegisters ==
  {Csd(b3, b5, b6, b7, b8, b9) :
     b3 \in {50, 255}, b5 \in {89, 91}, b6 \in {0, 1, 131},
     b7 \in {0, 255}, b8 \in {3, 255}, b9 \in {64, 232, 255}}

\* transfer_rate_unit[] and time_value[], in tenths, indexed from 0.
transfer_rate_unit == [k \in 0..3 |-> IF k = 0 THEN 1 ELSE IF k = 1 THEN 10
                                     ELSE IF k = 2 THEN 100 ELSE 1000]
time_value ==
  [k \in 0..15 |->
     IF k = 0 THEN 0 ELSE IF k = 1 THEN 10 ELSE IF k = 2 THEN 12
     ELSE IF k = 3 THEN 13 ELSE IF k = 4 THEN 15 ELSE IF k = 5 THEN 20
     ELSE IF k = 6 THEN 25 ELSE IF k = 7 THEN 30 ELSE IF k = 8 THEN 35
     ELSE IF k = 9 THEN 40 ELSE IF k = 10 THEN 45 ELSE IF k = 11 THEN 50
     ELSE IF k = 12 THEN 55 ELSE IF k = 13 THEN 60 ELSE IF k = 14 THEN 70
     ELSE 80]

\* Values a read past the end of transfer_rate_unit[] may produce.
OutOfRangeReads == {0, 7}

\* csd_register[3] & 0x7 and (csd_register[3] & 0x78) >> 3 (239-240).
UnitIndex(csd) == BitAnd(csd[3], 7)
TimeIndex(csd) == BitAnd(csd[3], 120) \div 8

\* powf(2.f, x) for a small natural x.
Pow2(x) == 2 ^ x

\* x * 2^e in uint32_t arithmetic.
RECURSIVE U32MulPow2(_, _)
U32MulPow2(x, e) ==
  IF e = 0 THEN x
  ELSE U32MulPow2(U32((2 * x.hi + (2 * x.lo) \div Half) % Half,
                      (2 * x.lo) % Half), e - 1)

\* uint8_t size_mult = (csd_register[9] & 0xe0) >> 5 (line 249).
SizeMult(csd) == BitAnd(csd[9], 224) \div 32

DeviceSizeShift10(csd) ==
  (BitOr(BitOr(BitAnd(csd[6], 3) * 1024, csd[7] * 4),
         BitAnd(csd[8], 192) \div 64)) % Half

\* uint16_t device_size = ((csd[6] & 0x3) << 11) | (csd[7] << 2) |
\* ((csd[8] & 0xc0) >> 6) (lines 251-253).
DeviceSize(csd) ==
  (BitOr(BitOr(BitAnd(csd[6], 3) * 2048, csd[7] * 4),
         BitAnd(csd[8], 192) \div 64)) % Half

CSizeMask7f(csd) == U32(BitAnd(csd[7], 127), BitOr(csd[8] * 256, csd[9]))

\* uint32_t c_size = ((csd[7] & 0x3f) << 16) | (csd[8] << 8) | csd[9]
\* (lines 259-260), as the two halves of the 32-bit value.
CSize(csd) == U32(BitAnd(csd[7], 63), BitOr(csd[8] * 256, csd[9]))

\* x + 1 in uint32_t arithmetic.
U32Inc(x) == U32Add(x, 1)

\* The whole of sd_card_get_common_info (lines 221-265).
sd_card_get_common_info ==
  /\ pc = "idle"
  /\ \E st \in TransportStatus, csd \in CsdRegisters :
       /\ csd_register' = csd
       /\ IF IsError(st)
          THEN /\ info_ret' = st
               /\ info_path' = "error"
               /\ info' = NoInfo
               /\ device_size' = 0
               /\ speed_index' = <<0, 0>>
          ELSE LET e == BitAnd(csd[5], 15)
                   bs == Pow2(e)
                   ds == DeviceSize(csd)
                   blocknr == (ds + 1) * Pow2(SizeMult(csd) + 2)
               IN
               /\ info_ret' = SD_OK
               /\ speed_index' = <<UnitIndex(csd), TimeIndex(csd)>>
               /\ info_path' = IF version = 1 THEN "v1" ELSE "v2"
               /\ device_size' = IF version = 1 THEN ds ELSE 0
               /\ \E g \in OutOfRangeReads :
                    info' =
                      [max_transfer_speed |->
                         (IF UnitIndex(csd) \in DOMAIN transfer_rate_unit
                          THEN transfer_rate_unit[UnitIndex(csd)] ELSE g)
                         * time_value[TimeIndex(csd)],
                       command_classes |->
                         BitOr(csd[4] * 16, BitAnd(csd[5], 240) \div 16),
                       max_data_block_size |-> bs,
                       partial_blocks_allowed |-> BitAnd(csd[6], 128) # 0,
                       size |->
                         IF version = 1
                         THEN U32MulPow2(U32(blocknr \div Half,
                                             blocknr % Half), e)
                         ELSE U32MulPow2(U32Inc(CSize(csd)), 9)]
  /\ UNCHANGED <<drv, hist, obs, crcv>>

\* Session states left by earlier resets, before a geometry request: no
\* reset succeeded yet (version 0), or one recorded version 1 or 2.
InitInfo ==
  /\ version \in 0..2
  /\ capacity \in {STANDART, HIGH_OR_EXTENDED}
  /\ version = 1 => capacity = STANDART
  /\ sd_card_is_spi_mode = (version # 0)
  /\ error_in_initialization = FALSE
  /\ tick = U32(0, 0)
  /\ cs = FALSE
  /\ pc = "idle"
  /\ crc_enable = FALSE
  /\ status = SD_OK
  /\ m_status = SD_OK
  /\ po_i = 0
  /\ tickstart = U32(0, 0)
  /\ send_if_cond_response = NoR7
  /\ v_status = SD_OK
  /\ ocr_response = NoOcr
  /\ mode_ret = SD_OK
  /\ v_ret = SD_OK
  /\ ret = SD_OK
  /\ seen = SD_OK
  /\ cmdsAfterFail = {}
  /\ stepFailed = FALSE
  /\ sent = {}
  /\ ran = {}
  /\ wrote = {}
  /\ modeIO = FALSE
  /\ latchAtEntry = FALSE
  /\ waited = 0
  /\ lastPoll = 0
  /\ allIdle = TRUE
  /\ if_cond_status = SD_OK
  /\ errAtEntry = FALSE
  /\ clock = 0
  /\ idleClocks = IF version # 0 THEN 80 ELSE 0
  /\ flushed = (version # 0)
  /\ po_status = SD_OK
  /\ InitCallVars
  /\ InitInfoVars

NextInfo == sd_card_get_common_info

SpecInfo == InitInfo /\ [][NextInfo]_vars

\* ------------------------------------------------------------- properties
\* A call of sd_card_reset has returned.
Returned == pc = "idle" /\ ran # {}

\* The CMD8 exchange of this reset completed with an OK transport status.
IfCondAnswered == "if_cond" \in ran /\ if_cond_status = SD_OK

\* The R7 answer has the illegal-command flag set.
R7Illegal ==
  BitAnd(send_if_cond_response.high_order_part, R1_ILLEGAL_COMMAND) # 0

\* The R7 answer echoes a wrong check pattern or a wrong voltage field.
R7BadPattern ==
  \/ send_if_cond_response.echo_back_of_check_pattern # 85
  \/ send_if_cond_response.voltage_accepted # 1

\* Command indices of the negotiation: CMD58, CMD55, ACMD41.
NegotiationCmds == {58, 55, 41}

\* C1: in sd_card_reset, once a step has produced a non-OK status no
\* further command is transmitted to the card in that call; in particular
\* a failed CRC on/off command is never followed by CMD58, CMD55 or ACMD41.
C1_ShortCircuit == cmdsAfterFail = {}

\* C2: the status returned by sd_card_reset contains the bits of every
\* status observed along the executed path (transport statuses and
\* sub-operation verdicts).
C2_ReturnIsOrOfSeen == Returned => BitAnd(ret, seen) = seen

\* C3: after every return of sd_card_reset, error_in_initialization is
\* true exactly when the returned status is not OK.
C3_ErrorFlagMatchesReturn ==
  Returned => (error_in_initialization <=> ret # SD_OK)

\* C3 witness: a reset entered with the flag set returned OK and cleared it.
C3_Witness ==
  Returned /\ errAtEntry /\ ret = SD_OK /\ ~error_in_initialization

\* C4: when the R7 answer has illegal-command clear and a wrong check
\* pattern or voltage field, sd_card_reset returns a status containing
\* unusable-card, sends no CMD58, CMD55 or ACMD41 and leaves version and
\* capacity unwritten.
C4_BadPatternUnusable ==
  (IfCondAnswered /\ ~R7Illegal /\ R7BadPattern) =>
    /\ sent \cap NegotiationCmds = {}
    /\ "v2" \notin ran
    /\ wrote = {}
    /\ pc = "idle" => BitAnd(ret, SD_UNUSABLE_CARD) # 0

\* C4 witness: a reset returned after an answer with a wrong echo and a
\* right voltage field.
C4_Witness ==
  /\ Returned /\ IfCondAnswered /\ ~R7Illegal
  /\ send_if_cond_response.echo_back_of_check_pattern = 170
  /\ send_if_cond_response.voltage_accepted = 1
  /\ "validate" \in ran
  /\ BitAnd(ret, SD_UNUSABLE_CARD) # 0

\* C5: when the R7 answer has illegal-command set, the pattern/voltage
\* validation is not evaluated, the later-revision negotiation does not
\* run, the earlier-revision negotiation runs, and the only values the
\* call can record are version 1 and capacity standard.
C5_IllegalMeansV1Only ==
  (IfCondAnswered /\ R7Illegal) =>
    /\ "validate" \notin ran
    /\ "v2" \notin ran
    /\ wrote \subseteq {<<1, STANDART>>}
    /\ wrote # {} => (version = 1 /\ capacity = STANDART)
    /\ pc = "idle" => "v1" \in ran

\* C5 witness: an illegal-command answer that echoes a valid pattern and
\* voltage, followed by a successful earlier-revision negotiation.
C5_Witness ==
  /\ Returned /\ IfCondAnswered /\ R7Illegal /\ ~R7BadPattern
  /\ wrote = {<<1, STANDART>>}
  /\ ret = SD_OK

\* C6: on the later-revision path that reaches ready, OCR byte 0 = 0x40
\* gives capacity high-or-extended, OCR byte 0 = 0x00 gives capacity
\* standard, and version is recorded as 2.
C6_CcsFromByte0 ==
  (Returned /\ "v2" \in ran /\ wrote # {}) =>
    /\ version = 2
    /\ ocr_response[0] = 64 => capacity = HIGH_OR_EXTENDED
    /\ ocr_response[0] = 0 => capacity = STANDART

\* C7: in both negotiation variants, when every ACMD41 answer is
\* in-idle-state the variant returns only timeout, only at a poll taken
\* more than 1000 ms after polling started, and no poll taken after the
\* deadline stays in the loop.
C7_TimeoutOnlyAfterDeadline ==
  (41 \in sent /\ allIdle) =>
    /\ pc = "idle" => (v_ret = SD_TIMEOUT /\ waited > 1000)
    /\ pc \in {"v1_poll", "v2_poll"} => lastPoll <= 1000

\* C7 witness: the earlier-revision variant polled at exactly 1000 ms
\* without timing out and timed out at the next poll.
C7_Witness ==
  /\ Returned /\ "v1" \in ran /\ 41 \in sent /\ allIdle
  /\ lastPoll = 1000
  /\ v_ret = SD_TIMEOUT

\* C8: once sd_card_enter_spi_mode has returned OK, every later call
\* returns OK without transport I/O or chip-select change; the latch is
\* set only by a call that returns OK and is never cleared.
C8_ModeEntryLatch ==
  /\ []((pc = "mode_done" /\ latchAtEntry) =>
          (mode_ret = SD_OK /\ ~modeIO /\ sent = {} /\ seen = SD_OK))
  /\ [][/\ sd_card_is_spi_mode => sd_card_is_spi_mode'
        /\ (~sd_card_is_spi_mode /\ sd_card_is_spi_mode') =>
             (pc' = "mode_done" /\ mode_ret' = SD_OK)]_vars

\* C8 witness: a call of sd_card_enter_spi_mode made with the latch set
\* has returned.
C8_Witness ==
  pc = "mode_done" /\ latchAtEntry /\ mode_ret = SD_OK /\ ~modeIO

\* A call of sd_card_get_common_info has returned.
InfoReturned == info_path # "none"

\* C9: sd_card_get_common_info called while version is unset returns a
\* non-OK status and computes no size through either decoding, even when
\* the CSD read succeeds.
C9_UnsetVersionFails ==
  (InfoReturned /\ version = 0) =>
    (info_ret # SD_OK /\ info_path \notin {"v1", "v2"})

\* The 12-bit device size of the claim: low 2 bits of byte 6 (most
\* significant), byte 7, top 2 bits of byte 8.
ClaimedDeviceSize ==
  (csd_register[6] % 4) * 1024 + csd_register[7] * 4
    + csd_register[8] \div 64

\* C10: with version 1 the decoded device size is the 12-bit value made of
\* the low 2 bits of byte 6, byte 7 and the top 2 bits of byte 8, the
\* size is (device_size+1) * 2^(size_mult+2) * max_block_size, and
\* size_mult=2, device_size=1023, block exponent 9 give 8388608 bytes.
C10_Version1Size ==
  info_path = "v1" =>
    /\ device_size \in 0..4095
    /\ device_size = ClaimedDeviceSize
    /\ info.size =
         U32MulPow2(U32(0, ClaimedDeviceSize + 1),
                    SizeMult(csd_register) + 2
                      + BitAnd(csd_register[5], 15))
    /\ (SizeMult(csd_register) = 2 /\ ClaimedDeviceSize = 1023
         /\ BitAnd(csd_register[5], 15) = 9) => info.size = U32(128, 0)

\* The 22-bit c_size of the claim: low 6 bits of byte 7 (most
\* significant), byte 8, byte 9.
ClaimedCSize ==
  (csd_register[7] % 64) * 65536 + csd_register[8] * 256 + csd_register[9]

\* C11: with version 2 the size is (c_size+1) * 512 for the 22-bit c_size
\* made of the low 6 bits of byte 7, byte 8 and byte 9; it never exceeds
\* 2^31, so nothing is lost in 32-bit arithmetic, and c_size = 1000 gives
\* 512512 bytes.  The size is compared in units of 512 bytes.
C11_Version2Size ==
  (version = 2 /\ info_path = "v2") =>
    /\ info.size.lo % 512 = 0
    /\ info.size.hi * 128 + info.size.lo \div 512 = ClaimedCSize + 1
    /\ info.size.hi <= 32768
    /\ info.size.hi = 32768 => info.size.lo = 0
    /\ ClaimedCSize = 1000 => info.size = U32(7, 53760)

\* C11 witness: the register with c_size = 1000 was decoded to 512512.
C11_Witness ==
  /\ version = 2 /\ info_path = "v2"
  /\ ClaimedCSize = 1000
  /\ info.size = U32(7, 53760)

\* C12: every call of sd_card_enter_spi_mode that selected the card has
\* deselected it when it returns, on the success, transport-error and
\* timeout paths alike.
C12_DeselectOnReturn == (pc = "mode_done" /\ 0 \in sent) => ~cs

\* The power-on sequence has run to its end without a transport error:
\* at least 74 clock cycles with the card deselected, then the throwaway
\* receive.
PoweredOn == idleClocks >= 74 /\ flushed /\ po_status = SD_OK

\* C13: no command frame is transmitted, and the card is not selected,
\* before the power-on sequence has run (card deselected, at least 74
\* clock cycles sent deselected, one throwaway receive); when a transmit
\* or receive of the power-on sequence fails, go-idle is not sent.
C13_PowerOnBeforeCommands ==
  /\ sent # {} => PoweredOn
  /\ pc \in {"go_idle", "mode_poll"} => PoweredOn
  /\ pc = "po_tx" => (~cs /\ sent = {} /\ idleClocks = 8 * po_i)
  /\ (pc = "mode_done" /\ modeIO /\ po_status # SD_OK) =>
       (0 \notin sent /\ mode_ret = po_status)

\* C13 witness: go-idle was sent after the ten idle bytes and the
\* throwaway receive.
C13_Witness ==
  /\ pc = "mode_poll" /\ cs /\ sent = {0}
  /\ idleClocks = 80 /\ flushed /\ po_status = SD_OK

\* C14: sd_card_crc_on_off sends command 59 with argument 1 when enabled
\* and 0 when disabled; it returns transmission-error for every answer
\* other than exactly in-idle-state, the ready status 0x00 included, and
\* OK only for in-idle-state with an OK transport status.
C14_CrcOnOff ==
  pc = "crc_done" =>
    /\ 59 \in sent
    /\ crc_enable => crc_arg = 1
    /\ ~crc_enable => crc_arg = 0
    /\ crc_r1 # R1_IN_IDLE_STATE => crc_ret = SD_TRANSMISSION_ERROR
    /\ crc_ret = SD_OK <=> (crc_r1 = R1_IN_IDLE_STATE /\ crc_st = SD_OK)

\* C14 witness: the enabling command was answered with the ready status
\* 0x00 over a healthy transport and transmission-error was returned.
C14_Witness ==
  /\ pc = "crc_done" /\ crc_enable /\ crc_arg = 1
  /\ crc_r1 = R1_CLEAR_FLAGS /\ crc_st = SD_OK
  /\ crc_ret = SD_TRANSMISSION_ERROR

\* C15: when the card delivered in-idle-state inside the 500 ms window
\* after go-idle, after any number of filler bytes and also as the very
\* first received byte, and the transport was healthy, mode entry
\* returns OK and sets the latch.
C15_IdleInTimeMeansOk ==
  (pc = "mode_done" /\ idleInTime /\ seen \in {SD_OK, SD_TIMEOUT}) =>
    (mode_ret = SD_OK /\ sd_card_is_spi_mode)

\* C16 as stated: command 59 is sent only on the later-revision path,
\* after the validation of the interface-condition response has passed.
C16_CrcOnlyAfterValidation ==
  59 \in sent => (~R7Illegal /\ ~R7BadPattern)

\* C16: command 59 is sent by every reset whose CMD8 exchange returned
\* OK and by no other, before the interface-condition response is
\* examined, on the earlier-revision and the later-revision path alike;
\* whenever it is sent it precedes the first ACMD41 of that reset.
C16_CrcBeforeBranch ==
  /\ 59 \in sent => IfCondAnswered
  /\ (pc \notin {"crc", "mode", "mode_done"} /\ IfCondAnswered) => 59 \in sent
  /\ (ran \cap {"v1", "validate", "v2"}) # {} => 59 \in sent
  /\ NegotiationCmds \cap sent # {} => 59 \in sent

\* C16 witness: command 59 went to a card whose interface-condition
\* response has the illegal-command flag, and ACMD41 followed.
C16_Witness ==
  /\ 59 \in sent /\ R7Illegal /\ "v1" \in ran /\ 41 \in sent

\* C17: in the ACMD41 loop the earlier-revision variant returns
\* unusable-card at the first answer with the illegal-command flag and
\* writes neither version nor capacity; the later-revision variant
\* ignores the flag, leaves its loop only on an all-clear answer or past
\* the 1000 ms deadline, and never returns unusable-card from the loop.
C17_IllegalDuringPolling ==
  /\ ("v1" \in ran /\ sawIllegal) =>
       (pc = "idle" /\ v_ret = SD_UNUSABLE_CARD /\ wrote = {})
  /\ ("v2" \in ran /\ 41 \in sent /\ pc = "idle") =>
       /\ BitAnd(v_ret, SD_UNUSABLE_CARD) = 0
       /\ wrote = {} => (v_ret = SD_TIMEOUT /\ waited > 1000)

\* C17 witness: the earlier-revision variant returned unusable-card on
\* an illegal-command answer.
C17_Witness ==
  /\ Returned /\ "v1" \in ran /\ sawIllegal
  /\ v_ret = SD_UNUSABLE_CARD /\ wrote = {}

\* The tick budget of the model is spent while a loop still waits
\* inside its window (500 ms for mode entry, 1000 ms for the negotiation).
OutOfTime ==
  /\ Polling
  /\ waited <= (IF pc = "mode_poll" THEN 500 ELSE 1000)
  /\ \A d \in TickSteps : clock + d > MaxElapsed

\* C18: every call of sd_card_reset eventually returns whatever the card
\* answers, when every transport call returns and the tick keeps
\* advancing: each polling loop ends on its condition or on its deadline,
\* also when the 32-bit tick wraps around during the wait.
C18_ResetReturns == (pc # "idle") ~> (pc = "idle" \/ OutOfTime)

\* C18 witness: the tick wrapped around while mode entry waited and the
\* loop ended on its deadline.
C18_Witness ==
  /\ pc = "mode_done" /\ mode_ret = SD_TIMEOUT
  /\ tickstart = U32(Half - 1, Half - 500)
  /\ tick.hi = 0
  /\ waited > 500

\* C19: a reset that returns a non-OK status leaves version and capacity
\* class as they were before the call; a reset that returns OK leaves
\* version 1 or 2.
C19_WrittenOnlyOnSuccess ==
  Returned =>
    /\ ret # SD_OK => <<version, capacity>> = verAtEntry
    /\ ret = SD_OK => version \in {1, 2}

\* C20: for every CSD byte 3 the transfer-rate-unit index is in 0..3 and
\* the time-value index is in 0..15.
C20_SpeedIndicesInRange ==
  (InfoReturned /\ info_ret = SD_OK) =>
    (speed_index[1] \in 0..3 /\ speed_index[2] \in 0..15)

====
